---------------------------- MODULE Spec2Model ----------------------------
(***************************************************************************)
(* The two helper scripts of ai-coding-prd-creator/scripts:                *)
(*   install_env.py  the install-command generator (a static table, a      *)
(*                   fuzzy lookup, a renderer and a command line), and     *)
(*   check_env.py    the environment prober (a sequence of shell probes    *)
(*                   gathered into a report).                              *)
(*                                                                         *)
(* A Python str that the code inspects character by character (a framework *)
(* name, an OS name, a probe's standard output) is a sequence of           *)
(* one-character strings.  A str that the code only stores, prints or uses *)
(* as a dictionary key is a TLA+ string.  The non-ASCII literals of the    *)
(* source are written as ASCII glosses; nothing depends on their content.  *)
(* An f-string is the tuple of its pieces.                                 *)
(***************************************************************************)
EXTENDS Integers, Sequences, FiniteSets, TLC

VARIABLES
    osName,      \* what platform.system() returned to the operation that ran
                 \* last (None: it did not ask)
    op,          \* the operation that ran last, with its arguments
    ret,         \* what it returned
    stdout,      \* what it printed
    exitCode,    \* the process exit status it produced (None: none)
    detectCalls, \* calls of detect_platform() made by that operation
    shellCalls,  \* subprocess executions made by that operation
    pc,          \* check_env.py: the statement main() has reached
    loc,         \* check_env.py: the local variables of the check functions
    env_info,    \* check_env.py: the report main() builds
    execCount,   \* check_env.py: executions so far of each command line
    presence,    \* check_env.py: how the last execution of each command
                 \* line ended: "not run", "ok" or "failed"
    prov         \* check_env.py: for each value of the report that is a
                 \* probe's output, the execution whose success flag decided
                 \* to report it and the execution that produced it

vars == <<osName, op, ret, stdout, exitCode, detectCalls, shellCalls,
          pc, loc, env_info, execCount, presence, prov>>

callVars == <<op, ret, stdout, exitCode, detectCalls, shellCalls>>
checkVars == <<pc, loc, env_info, execCount, presence, prov>>

---------------------------------------------------------------------------
(* Bounds of the model.                                                    *)

\* Framework names up to this length over NameAlphabet are tried, besides
\* the named ones.
MaxNameLen == 2

\* Standard outputs up to this length over OutAlphabet are given to
\* run_command.
MaxOutLen == 3

---------------------------------------------------------------------------
(* Python's str operations, on sequences of characters.                    *)

\* The Python None object, and a value that is not None.
None == [isNone |-> TRUE]

Some(x) == [isNone |-> FALSE, val |-> x]

UpperLetters ==
    <<"A", "B", "C", "D", "E", "F", "G", "H", "I", "J", "K", "L", "M",
      "N", "O", "P", "Q", "R", "S", "T", "U", "V", "W", "X", "Y", "Z">>

LowerLetters ==
    <<"a", "b", "c", "d", "e", "f", "g", "h", "i", "j", "k", "l", "m",
      "n", "o", "p", "q", "r", "s", "t", "u", "v", "w", "x", "y", "z">>

\* str.lower() of one character.
char_lower(c) ==
    IF \E i \in 1..26 : UpperLetters[i] = c
    THEN LowerLetters[CHOOSE i \in 1..26 : UpperLetters[i] = c]
    ELSE c

\* str.lower()
str_lower(s) == [i \in 1..Len(s) |-> char_lower(s[i])]

\* str.upper() of one character.
char_upper(c) ==
    IF \E i \in 1..26 : LowerLetters[i] = c
    THEN UpperLetters[CHOOSE i \in 1..26 : LowerLetters[i] = c]
    ELSE c

\* str.upper()
str_upper(s) == [i \in 1..Len(s) |-> char_upper(s[i])]

\* s.replace(old, new): the non-overlapping occurrences of old, left to
\* right (old is never empty in the source).
RECURSIVE str_replace(_, _, _)
str_replace(s, old, new) ==
    IF Len(s) < Len(old) THEN s
    ELSE IF SubSeq(s, 1, Len(old)) = old
         THEN new \o str_replace(SubSeq(s, Len(old) + 1, Len(s)), old, new)
         ELSE <<Head(s)>> \o str_replace(Tail(s), old, new)

\* Python's "a in b" on two strs: a occurs in b as a contiguous run.
str_in(a, b) ==
    \E i \in 0..(Len(b) - Len(a)) : SubSeq(b, i + 1, i + Len(a)) = a

\* The characters str.strip() removes.
Whitespace == {" ", "\t", "\n", "\r"}

\* str.strip()
RECURSIVE str_lstrip(_)
str_lstrip(s) ==
    IF s # <<>> /\ Head(s) \in Whitespace THEN str_lstrip(Tail(s)) ELSE s

RECURSIVE str_rstrip(_)
str_rstrip(s) ==
    IF s # <<>> /\ s[Len(s)] \in Whitespace
    THEN str_rstrip(SubSeq(s, 1, Len(s) - 1))
    ELSE s

str_strip(s) == str_rstrip(str_lstrip(s))

\* ', '.join(l)
RECURSIVE str_join(_)
str_join(l) ==
    IF l = <<>> THEN <<>>
    ELSE IF Len(l) = 1 THEN <<l[1]>>
    ELSE <<l[1], ", ">> \o str_join(Tail(l))

---------------------------------------------------------------------------
(* install_env.py: the table.                                              *)

\* An install_commands payload that is a list.
Flat(l) == [isdict |-> FALSE, list |-> l]

\* An install_commands payload that is a dict from platform to list.
PerPlatform(d) == [isdict |-> TRUE, dict |-> d]

\* The platform tags and the argparse choice "auto", as strs.
STR_windows == <<"w", "i", "n", "d", "o", "w", "s">>
STR_macos == <<"m", "a", "c", "o", "s">>
STR_linux == <<"l", "i", "n", "u", "x">>
STR_unknown == <<"u", "n", "k", "n", "o", "w", "n">>
STR_darwin == <<"d", "a", "r", "w", "i", "n">>
STR_auto == <<"a", "u", "t", "o">>

\* install_env.py line 17: the entry "flask"
Record_flask ==
    [name |-> <<"F", "l", "a", "s", "k">>,
     description |-> "lightweight Python web framework",
     prerequisites |-> <<"Python 3.7+">>,
     install_commands |->
         Flat(<<"pip install flask">>),
     verify_command |-> "python -c \"import flask; print(flask.__version__)\""]

\* install_env.py line 26: the entry "django"
Record_django ==
    [name |-> <<"D", "j", "a", "n", "g", "o">>,
     description |-> "full-featured Python web framework",
     prerequisites |-> <<"Python 3.8+">>,
     install_commands |->
         Flat(<<"pip install django">>),
     verify_command |-> "python -c \"import django; print(django.get_version())\""]

\* install_env.py line 35: the entry "fastapi"
Record_fastapi ==
    [name |-> <<"F", "a", "s", "t", "A", "P", "I">>,
     description |-> "modern Python web framework",
     prerequisites |-> <<"Python 3.7+">>,
     install_commands |->
         Flat(<<"pip install fastapi uvicorn">>),
     verify_command |-> "python -c \"import fastapi; print(fastapi.__version__)\""]

\* install_env.py line 44: the entry "streamlit"
Record_streamlit ==
    [name |-> <<"S", "t", "r", "e", "a", "m", "l", "i", "t">>,
     description |-> "Python data app framework",
     prerequisites |-> <<"Python 3.7+">>,
     install_commands |->
         Flat(<<"pip install streamlit">>),
     verify_command |-> "python -c \"import streamlit; print(streamlit.__version__)\""]

\* install_env.py line 53: the entry "tkinter"
Record_tkinter ==
    [name |-> <<"T", "k", "i", "n", "t", "e", "r">>,
     description |-> "Python built-in GUI library",
     prerequisites |-> <<"Python 3.6+">>,
     install_commands |->
         PerPlatform(
             (STR_windows :> <<"# Tkinter usually ships with Python, nothing to install",
                         "# if missing, reinstall Python with the 'tcl/tk and IDLE' option">>)
          @@ (STR_macos :> <<"# Tkinter usually ships with Python, nothing to install",
                         "# if missing, reinstall Python or use: brew install python-tk">>)
          @@ (STR_linux :> <<"# Ubuntu/Debian: sudo apt-get install python3-tk",
                         "# CentOS/RHEL: sudo yum install python3-tkinter",
                         "# Fedora: sudo dnf install python3-tkinter">>)),
     verify_command |-> "python -c \"import tkinter; print('Tkinter installed')\""]

\* install_env.py line 76: the entry "nextjs"
Record_nextjs ==
    [name |-> <<"N", "e", "x", "t", ".", "j", "s">>,
     description |-> "React full-stack framework",
     prerequisites |-> <<"Node.js 14+">>,
     install_commands |->
         Flat(<<"npx create-next-app@latest my-app",
                           "# or install globally:",
                           "npm install -g create-next-app">>),
     verify_command |-> "npx next --version"]

\* install_env.py line 87: the entry "react"
Record_react ==
    [name |-> <<"R", "e", "a", "c", "t">>,
     description |-> "front-end framework",
     prerequisites |-> <<"Node.js 14+">>,
     install_commands |->
         Flat(<<"npx create-react-app my-app">>),
     verify_command |-> "npx react-scripts --version"]

\* install_env.py line 96: the entry "vue"
Record_vue ==
    [name |-> <<"V", "u", "e", ".", "j", "s">>,
     description |-> "progressive front-end framework",
     prerequisites |-> <<"Node.js 14+">>,
     install_commands |->
         Flat(<<"npm install -g @vue/cli",
                           "vue create my-app">>),
     verify_command |-> "vue --version"]

\* install_env.py line 106: the entry "express"
Record_express ==
    [name |-> <<"E", "x", "p", "r", "e", "s", "s">>,
     description |-> "Node.js web framework",
     prerequisites |-> <<"Node.js 14+">>,
     install_commands |->
         Flat(<<"mkdir my-app && cd my-app",
                           "npm init -y",
                           "npm install express">>),
     verify_command |-> "node -e \"console.log(require('express/package.json').version)\""]

\* install_env.py line 119: the entry "hexo"
Record_hexo ==
    [name |-> <<"H", "e", "x", "o">>,
     description |-> "static blog generator",
     prerequisites |-> <<"Node.js 14+">>,
     install_commands |->
         Flat(<<"npm install -g hexo-cli",
                           "hexo init my-blog">>),
     verify_command |-> "hexo version"]

\* install_env.py line 129: the entry "hugo"
Record_hugo ==
    [name |-> <<"H", "u", "g", "o">>,
     description |-> "fast static site generator",
     prerequisites |-> <<"no special requirements">>,
     install_commands |->
         PerPlatform(
             (STR_windows :> <<"# method 1: Chocolatey",
                         "choco install hugo-extended",
                         "# method 2: Scoop",
                         "scoop install hugo-extended",
                         "# method 3: download: https://gohugo.io/getting-started/installing/">>)
          @@ (STR_macos :> <<"# install with Homebrew",
                         "brew install hugo">>)
          @@ (STR_linux :> <<"# Ubuntu/Debian",
                         "sudo apt-get install hugo",
                         "# CentOS/RHEL",
                         "sudo yum install hugo",
                         "# Fedora",
                         "sudo dnf install hugo",
                         "# or use snap",
                         "sudo snap install hugo">>)),
     verify_command |-> "hugo version"]

\* install_env.py line 158: the entry "jekyll"
Record_jekyll ==
    [name |-> <<"J", "e", "k", "y", "l", "l">>,
     description |-> "Ruby static site generator",
     prerequisites |-> <<"Ruby">>,
     install_commands |->
         PerPlatform(
             (STR_windows :> <<"# 1. install Ruby from https://rubyinstaller.org/",
                         "# 2. then in 'Ruby Command Prompt with Ruby' run:",
                         "gem install jekyll bundler">>)
          @@ (STR_macos :> <<"# macOS usually has Ruby, run:",
                         "gem install jekyll bundler",
                         "# on permission problems run:",
                         "sudo gem install jekyll bundler">>)
          @@ (STR_linux :> <<"# Ubuntu/Debian",
                         "sudo apt-get install ruby-full build-essential zlib1g-dev",
                         "# after installing Ruby run:",
                         "gem install jekyll bundler",
                         "# note: the Ruby path may need configuring",
                         "echo 'export PATH=\"$HOME/.gem/ruby/3.0.0/bin:$PATH\"' >> ~/.bashrc",
                         "source ~/.bashrc">>)),
     verify_command |-> "jekyll --version"]

\* install_env.py line 188: the entry "pandas"
Record_pandas ==
    [name |-> <<"P", "a", "n", "d", "a", "s">>,
     description |-> "Python data analysis library",
     prerequisites |-> <<"Python 3.7+">>,
     install_commands |->
         Flat(<<"pip install pandas openpyxl">>),
     verify_command |-> "python -c \"import pandas; print(pandas.__version__)\""]

\* install_env.py line 197: the entry "matplotlib"
Record_matplotlib ==
    [name |-> <<"M", "a", "t", "p", "l", "o", "t", "l", "i", "b">>,
     description |-> "Python plotting library",
     prerequisites |-> <<"Python 3.7+">>,
     install_commands |->
         Flat(<<"pip install matplotlib">>),
     verify_command |-> "python -c \"import matplotlib; print(matplotlib.__version__)\""]

\* install_env.py line 208: the entry "electron"
Record_electron ==
    [name |-> <<"E", "l", "e", "c", "t", "r", "o", "n">>,
     description |-> "cross-platform desktop app framework",
     prerequisites |-> <<"Node.js 14+">>,
     install_commands |->
         Flat(<<"npm install -g electron">>),
     verify_command |-> "electron --version"]

\* The table in declaration order (a Python dict iterates in insertion order).
FRAMEWORK_INSTALL_COMMANDS ==
    <<[key |-> <<"f", "l", "a", "s", "k">>, value |-> Record_flask],
      [key |-> <<"d", "j", "a", "n", "g", "o">>, value |-> Record_django],
      [key |-> <<"f", "a", "s", "t", "a", "p", "i">>, value |-> Record_fastapi],
      [key |-> <<"s", "t", "r", "e", "a", "m", "l", "i", "t">>, value |-> Record_streamlit],
      [key |-> <<"t", "k", "i", "n", "t", "e", "r">>, value |-> Record_tkinter],
      [key |-> <<"n", "e", "x", "t", "j", "s">>, value |-> Record_nextjs],
      [key |-> <<"r", "e", "a", "c", "t">>, value |-> Record_react],
      [key |-> <<"v", "u", "e">>, value |-> Record_vue],
      [key |-> <<"e", "x", "p", "r", "e", "s", "s">>, value |-> Record_express],
      [key |-> <<"h", "e", "x", "o">>, value |-> Record_hexo],
      [key |-> <<"h", "u", "g", "o">>, value |-> Record_hugo],
      [key |-> <<"j", "e", "k", "y", "l", "l">>, value |-> Record_jekyll],
      [key |-> <<"p", "a", "n", "d", "a", "s">>, value |-> Record_pandas],
      [key |-> <<"m", "a", "t", "p", "l", "o", "t", "l", "i", "b">>, value |-> Record_matplotlib],
      [key |-> <<"e", "l", "e", "c", "t", "r", "o", "n">>, value |-> Record_electron]>>

---------------------------------------------------------------------------
(* install_env.py: the functions.                                          *)

\* detect_platform() without the .lower() of line 225.
detect_platform_case_sensitive(system) ==
    IF system = STR_windows THEN STR_windows
    ELSE IF system = STR_darwin THEN STR_macos
    ELSE IF system = STR_linux THEN STR_linux
    ELSE STR_unknown

\* detect_platform(), as a function of what platform.system() returned.
detect_platform(system) ==
    LET s == str_lower(system) IN
    IF s = STR_windows THEN STR_windows
    ELSE IF s = STR_darwin THEN STR_macos
    ELSE IF s = STR_linux THEN STR_linux
    ELSE STR_unknown

\* The key without the .replace(".", "") of line 240.
framework_key_keeps_dots(framework_name) ==
    str_replace(str_lower(framework_name), <<"-">>, <<>>)

\* framework_name.lower().replace(".", "").replace("-", "")
framework_key_of(framework_name) ==
    str_replace(str_replace(str_lower(framework_name), <<".">>, <<>>),
                <<"-">>, <<>>)

\* The test of line 244 without its second half.
fuzzy_match_one_way(framework_key, key) == str_in(framework_key, key)

\* The test of the loop of get_framework_info.
fuzzy_match(framework_key, key) ==
    str_in(framework_key, key) \/ str_in(key, framework_key)

\* The loop of get_framework_info from entry i on: the value of the first
\* entry whose key matches, None when the table is exhausted.
RECURSIVE framework_scan(_, _)
framework_scan(framework_key, i) ==
    IF i > Len(FRAMEWORK_INSTALL_COMMANDS) THEN None
    ELSE IF fuzzy_match(framework_key, FRAMEWORK_INSTALL_COMMANDS[i].key)
         THEN Some(FRAMEWORK_INSTALL_COMMANDS[i].value)
         ELSE framework_scan(framework_key, i + 1)

get_framework_info(framework_name) ==
    framework_scan(framework_key_of(framework_name), 1)

\* The pieces of the two messages generate_install_commands returns early.
NOT_FOUND_PREFIX == "ERROR: no install information for framework '"
NOT_FOUND_SUFFIX == "' found"
NO_PLATFORM_PREFIX == "WARNING: no install commands for platform "

\* A returned str that is an f-string, json.dumps of a dict, or lines joined
\* by "\n".
FString(parts) == [form |-> "fstring", parts |-> parts]
JsonDump(obj) == [form |-> "json", obj |-> obj]
JoinedLines(lines) == [form |-> "lines", lines |-> lines]

\* An exception leaving the function.
Raise(exc) == [form |-> "raise", exc |-> exc]

\* The warning of line 272.
platform_warning(framework_info, platform) ==
    FString(<<NO_PLATFORM_PREFIX, platform,
              "\n\nSupported framework: ", framework_info.name,
              "\nDescription: ", framework_info.description,
              "\nPrerequisites: ", str_join(framework_info.prerequisites),
              "\n\nInstall manually or use the following general method:">>)

\* The json branch: a copy of the table's record plus detected_platform.
render_json(framework_info, platform) ==
    JsonDump([name |-> framework_info.name,
              description |-> framework_info.description,
              prerequisites |-> framework_info.prerequisites,
              install_commands |-> framework_info.install_commands,
              verify_command |-> framework_info.verify_command,
              detected_platform |-> platform])

\* The text branch.
render_text(framework_info, platform, install_commands) ==
    JoinedLines(
        << <<"# ", framework_info.name, " install guide">>,
           <<"# description: ", framework_info.description>>,
           <<"# detected OS: ", str_upper(platform)>>,
           <<"# prerequisites: ", str_join(framework_info.prerequisites)>>,
           <<"">>,
           <<"# install commands:">> >>
        \o [i \in 1..Len(install_commands) |-> <<install_commands[i]>>]
        \o << <<"">>,
              <<"# verify the installation:">>,
              <<framework_info.verify_command>>,
              <<"">>,
              <<"# hints:">>,
              <<"# - if a command fails, check that you run as administrator">>,
              <<"# - if the OS is not recognised, use --platform (windows/macos/linux)">>,
              <<"">> >>)

\* generate_install_commands with lines 260-261 moved before line 256: the
\* platform is detected before the framework is looked up.
generate_detects_first(framework_name, platform, format, system) ==
    LET framework_info == get_framework_info(framework_name)
        detects == IF platform.isNone THEN 1 ELSE 0
        plat == IF platform.isNone THEN detect_platform(system)
                ELSE platform.val
    IN  IF framework_info.isNone
        THEN [ret |-> FString(<<NOT_FOUND_PREFIX, framework_name,
                                NOT_FOUND_SUFFIX>>),
              detect_calls |-> detects]
        ELSE
          LET info == framework_info.val
              payload == info.install_commands
          IN  IF payload.isdict /\ plat \notin DOMAIN payload.dict
              THEN [ret |-> platform_warning(info, plat),
                    detect_calls |-> detects]
              ELSE
                LET install_commands ==
                        IF payload.isdict THEN payload.dict[plat]
                        ELSE payload.list
                IN  [ret |-> IF format = "json"
                             THEN render_json(info, plat)
                             ELSE render_text(info, plat, install_commands),
                     detect_calls |-> detects]

\* generate_install_commands without the test of line 268: the payload is
\* subscripted with whatever platform was resolved.
generate_unguarded(framework_name, platform, format, system) ==
    LET framework_info == get_framework_info(framework_name) IN
    IF framework_info.isNone
    THEN [ret |-> FString(<<NOT_FOUND_PREFIX, framework_name, NOT_FOUND_SUFFIX>>),
          detect_calls |-> 0]
    ELSE
      LET info == framework_info.val
          detects == IF platform.isNone THEN 1 ELSE 0
          plat == IF platform.isNone THEN detect_platform(system)
                  ELSE platform.val
          payload == info.install_commands
      IN  IF payload.isdict /\ plat \notin DOMAIN payload.dict
          THEN [ret |-> Raise("KeyError"), detect_calls |-> detects]
          ELSE
            LET install_commands ==
                    IF payload.isdict THEN payload.dict[plat] ELSE payload.list
            IN  [ret |-> IF format = "json"
                         THEN render_json(info, plat)
                         ELSE render_text(info, plat, install_commands),
                 detect_calls |-> detects]

\* generate_install_commands(framework_name, platform, format) on a host
\* whose platform.system() is system: what it returns, and how many times
\* it called detect_platform().
generate_install_commands(framework_name, platform, format, system) ==
    LET framework_info == get_framework_info(framework_name) IN
    IF framework_info.isNone
    THEN [ret |-> FString(<<NOT_FOUND_PREFIX, framework_name, NOT_FOUND_SUFFIX>>),
          detect_calls |-> 0]
    ELSE
      LET info == framework_info.val
          detects == IF platform.isNone THEN 1 ELSE 0
          plat == IF platform.isNone THEN detect_platform(system)
                  ELSE platform.val
          payload == info.install_commands
      IN  IF payload.isdict /\ plat \notin DOMAIN payload.dict
          THEN [ret |-> platform_warning(info, plat), detect_calls |-> detects]
          ELSE
            LET install_commands ==
                    IF payload.isdict THEN payload.dict[plat] ELSE payload.list
            IN  [ret |-> IF format = "json"
                         THEN render_json(info, plat)
                         ELSE render_text(info, plat, install_commands),
                 detect_calls |-> detects]

\* The four lines list_available_frameworks appends for one entry.
catalog_entry(e) ==
    << <<"## ", e.value.name, " (", e.key, ")">>,
       <<"description: ", e.value.description>>,
       <<"prerequisites: ", str_join(e.value.prerequisites)>>,
       <<"">> >>

RECURSIVE catalog_from(_)
catalog_from(i) ==
    IF i > Len(FRAMEWORK_INSTALL_COMMANDS) THEN <<>>
    ELSE catalog_entry(FRAMEWORK_INSTALL_COMMANDS[i]) \o catalog_from(i + 1)

list_available_frameworks ==
    JoinedLines(<< <<"# supported frameworks:">>, <<"">> >> \o catalog_from(1))

\* argparse: the values --platform and --format accept.
PlatformChoices == {STR_windows, STR_macos, STR_linux, STR_auto}
FormatChoices == {"text", "json"}

\* What parser.print_help() and argparse's error() write.
HELP == [form |-> "help"]
USAGE_ERROR == [form |-> "usage_error"]

\* Python's truth value of args.framework: None and "" are false.
truthy(framework) == ~framework.isNone /\ framework.val # <<>>

\* main with the tests of lines 331 and 333 in the other order.
main_framework_first(argv, system) ==
    IF argv.platform \notin PlatformChoices \/ argv.format \notin FormatChoices
    THEN [stdout |-> <<>>, stderr |-> <<USAGE_ERROR>>, exit |-> 2,
          detect_calls |-> 0]
    ELSE IF truthy(argv.framework)
    THEN LET platform == IF argv.platform = STR_auto THEN None
                         ELSE Some(argv.platform)
             g == generate_install_commands(argv.framework.val, platform,
                                            argv.format, system)
         IN  [stdout |-> <<g.ret>>, stderr |-> <<>>, exit |-> 0,
              detect_calls |-> g.detect_calls]
    ELSE IF argv.list
    THEN [stdout |-> <<list_available_frameworks>>, stderr |-> <<>>,
          exit |-> 0, detect_calls |-> 0]
    ELSE [stdout |-> <<HELP,
                       FString(<<"\nHints:">>),
                       FString(<<"  - use --list to see the supported frameworks">>),
                       FString(<<"  - use --platform to name the OS when detection fails">>)>>,
          stderr |-> <<>>, exit |-> 0, detect_calls |-> 0]

\* main() on the command line argv = [framework, list, platform, format]
\* (framework: None when the flag is absent): what it prints, its exit
\* status, and how many times detect_platform() ran.
main(argv, system) ==
    IF argv.platform \notin PlatformChoices \/ argv.format \notin FormatChoices
    THEN [stdout |-> <<>>, stderr |-> <<USAGE_ERROR>>, exit |-> 2,
          detect_calls |-> 0]
    ELSE IF argv.list
    THEN [stdout |-> <<list_available_frameworks>>, stderr |-> <<>>,
          exit |-> 0, detect_calls |-> 0]
    ELSE IF truthy(argv.framework)
    THEN LET platform == IF argv.platform = STR_auto THEN None
                         ELSE Some(argv.platform)
             g == generate_install_commands(argv.framework.val, platform,
                                            argv.format, system)
         IN  [stdout |-> <<g.ret>>, stderr |-> <<>>, exit |-> 0,
              detect_calls |-> g.detect_calls]
    ELSE [stdout |-> <<HELP,
                       FString(<<"\nHints:">>),
                       FString(<<"  - use --list to see the supported frameworks">>),
                       FString(<<"  - use --platform to name the OS when detection fails">>)>>,
          stderr |-> <<>>, exit |-> 0, detect_calls |-> 0]

---------------------------------------------------------------------------
(* check_env.py: the functions.                                            *)

\* detect_platform() of check_env.py, as a function of what
\* platform.system() returned.
check_detect_platform(system) ==
    LET s == str_lower(system) IN
    IF s = STR_windows THEN STR_windows
    ELSE IF s = STR_darwin THEN STR_macos
    ELSE IF s = STR_linux THEN STR_linux
    ELSE STR_unknown

\* The timeout subprocess.run is given, in seconds.
TIMEOUT_SECONDS == 5

\* What run_command returns on a timeout.
STR_command_timeout == <<"C", "o", "m", "m", "a", "n", "d", " ", "t", "i", "m", "e", "o", "u", "t">>

\* What one execution of a command line does when left alone: the shell
\* exits with returncode after `duration` seconds, having written stdout;
\* or subprocess.run fails to run it, raising an Exception whose str() is
\* message.
Exited(returncode, out, duration) ==
    [kind |-> "exit", returncode |-> returncode, stdout |-> out,
     duration |-> duration, message |-> <<>>]

Failed(message) ==
    [kind |-> "error", returncode |-> 0, stdout |-> <<>>,
     duration |-> 0, message |-> message]

\* A returned (success, output) pair.
Pair(success, output) ==
    [form |-> "tuple", success |-> success, output |-> output]

\* run_command without the except clause of lines 43-44.
run_command_timeout_uncaught(o) ==
    IF o.kind = "error" THEN Pair(FALSE, o.message)
    ELSE IF o.duration > TIMEOUT_SECONDS
    THEN Raise("TimeoutExpired")
    ELSE Pair(o.returncode = 0, str_strip(o.stdout))

\* run_command(command), given what the execution does: TimeoutExpired
\* when the shell is still running at the timeout.
run_command(o) ==
    IF o.kind = "error" THEN Pair(FALSE, o.message)
    ELSE IF o.duration > TIMEOUT_SECONDS
    THEN Pair(FALSE, STR_command_timeout)
    ELSE Pair(o.returncode = 0, str_strip(o.stdout))

\* The command lines check_env.py runs.
Commands ==
    {"python3 --version", "python --version", "pip3 --version",
     "pip --version", "which python3", "which python",
     "node --version", "npm --version", "which node",
     "java -version", "java -version 2>&1 | head -n 1", "which java",
     "mysql --version", "psql --version", "mongod --version",
     "redis-cli --version", "sqlite3 --version", "git --version"}

\* version.replace("Python ", "")
STR_Python_ == <<"P", "y", "t", "h", "o", "n", " ">>

\* The version check_java reports when the second probe fails.
STR_java_unparsed == <<"J", "a", "v", "a", " ", "(", "v", "e", "r", "s", "i", "o", "n", " ", "n", "o", "t", " ", "p", "a", "r", "s", "e", "d", ")">>

\* check_python returning one dict for both cases, the version kept.
python_record_keeps_version(success, version, path, pip_success) ==
    [installed |-> success,
     version |-> Some(str_replace(version, STR_Python_, <<>>)),
     path |-> Some(path),
     pip_available |-> pip_success]

\* The dict check_python returns.
python_record(success, version, path, pip_success) ==
    IF success
    THEN [installed |-> TRUE,
          version |-> Some(str_replace(version, STR_Python_, <<>>)),
          path |-> Some(path),
          pip_available |-> pip_success]
    ELSE [installed |-> FALSE, version |-> None, pip_available |-> FALSE]

\* The dict check_nodejs returns (path: None when `which node` failed).
nodejs_record(success, version, npm_success, npm_version, path) ==
    IF success
    THEN [installed |-> TRUE,
          version |-> Some(version),
          npm_version |-> IF npm_success THEN Some(npm_version) ELSE None,
          path |-> path]
    ELSE [installed |-> FALSE, version |-> None, npm_version |-> None]

\* check_java, lines 117-118: the version after the second probe.
java_version(success, version) ==
    IF ~success THEN STR_java_unparsed ELSE version

\* The dict check_java returns (path: None when `which java` failed).
java_record(success, version, path) ==
    IF success
    THEN [installed |-> TRUE, version |-> Some(version), path |-> path]
    ELSE [installed |-> FALSE, version |-> None]

\* One entry of the dict check_databases returns, and the dict check_git
\* returns.
tool_record(success, version) ==
    [installed |-> success,
     version |-> IF success THEN Some(version) ELSE None]

\* The databases check_databases probes, in order, with their commands.
Databases ==
    <<[name |-> "mysql", command |-> "mysql --version"],
      [name |-> "postgresql", command |-> "psql --version"],
      [name |-> "mongodb", command |-> "mongod --version"],
      [name |-> "redis", command |-> "redis-cli --version"],
      [name |-> "sqlite3", command |-> "sqlite3 --version"]>>

\* What each command line writes to its standard output on the modelled
\* hosts (java -version writes to standard error).
StdoutOf(command) ==
    CASE command = "python3 --version" ->
             <<"P", "y", "t", "h", "o", "n", " ", "3", ".", "1", "1", "\n">>
      [] command = "python --version" ->
             <<"P", "y", "t", "h", "o", "n", " ", "3", ".", "9", "\n">>
      [] command = "pip3 --version" ->
             <<"p", "i", "p", " ", "2", "3", ".", "0", "\n">>
      [] command = "pip --version" ->
             <<"p", "i", "p", " ", "2", "3", ".", "0", "\n">>
      [] command = "which python3" ->
             <<"/", "b", "i", "n", "/", "p", "y", "t", "h", "o", "n", "3", "\n">>
      [] command = "which python" ->
             <<"/", "b", "i", "n", "/", "p", "y", "t", "h", "o", "n", "\n">>
      [] command = "node --version" ->
             <<"v", "1", "8", ".", "1", "\n">>
      [] command = "npm --version" ->
             <<"9", ".", "5", "\n">>
      [] command = "which node" ->
             <<"/", "b", "i", "n", "/", "n", "o", "d", "e", "\n">>
      [] command = "java -version" ->
             <<>>
      [] command = "java -version 2>&1 | head -n 1" ->
             <<"o", "p", "e", "n", "j", "d", "k", " ", "1", "7", "\n">>
      [] command = "which java" ->
             <<"/", "b", "i", "n", "/", "j", "a", "v", "a", "\n">>
      [] command = "mysql --version" ->
             <<"m", "y", "s", "q", "l", " ", "8", ".", "0", "\n">>
      [] command = "psql --version" ->
             <<"p", "s", "q", "l", " ", "1", "5", ".", "2", "\n">>
      [] command = "mongod --version" ->
             <<"d", "b", " ", "v", "6", ".", "0", "\n">>
      [] command = "redis-cli --version" ->
             <<"r", "e", "d", "i", "s", "-", "c", "l", "i", " ", "7", ".", "0", "\n">>
      [] command = "sqlite3 --version" ->
             <<"3", ".", "4", "0", "\n">>
      [] command = "git --version" ->
             <<"g", "i", "t", " ", "2", ".", "3", "9", "\n">>

\* str(e) of the Exception a failed invocation raises.
STR_oserror == <<"E", "N", "O", "M", "E", "M">>

---------------------------------------------------------------------------
(* The inputs the operations are tried on.                                 *)

\* The characters of the generated framework names.
NameAlphabet == {"r", "R", "e", ".", "-"}

\* Every str over alphabet of length at most n.
StrsUpTo(alphabet, n) == UNION {[1..k -> alphabet] : k \in 0..n}

\* Framework names: those the specification and the table name, some that
\* match nothing or several keys, and every short str over NameAlphabet.
FrameworkNames ==
    {FRAMEWORK_INSTALL_COMMANDS[i].key : i \in 1..Len(FRAMEWORK_INSTALL_COMMANDS)}
    \cup {FRAMEWORK_INSTALL_COMMANDS[i].value.name :
              i \in 1..Len(FRAMEWORK_INSTALL_COMMANDS)}
    \cup {<<"r", "e", "a", "c", "t", "j", "s">>,
          <<"R", "E", "A", "C", "T">>,
          <<"R", "e", "a", "c", "t", ".", "j", "s">>,
          <<"r", "e", "-", "a", "c", "t">>,
          <<"d", "o", "e", "s", "n", "o", "t", "e", "x", "i", "s", "t">>,
          <<"N", "o", "d", "e", ".", "j", "s">>,
          <<"f", "l", "a", "s", "k", "-", "d", "j", "a", "n", "g", "o">>,
          <<"j", "s">>,
          <<"x">>,
          <<"V", "u", "e", "-", "3">>,
          <<"s", "p", "r", "i", "n", "g">>}
    \cup StrsUpTo(NameAlphabet, MaxNameLen)

\* Values of platform.system(): the three the code names, in two
\* spellings, and some it does not.
STR_Linux == <<"L", "i", "n", "u", "x">>

OSNames ==
    {STR_Linux,
     <<"D", "a", "r", "w", "i", "n">>,
     <<"W", "i", "n", "d", "o", "w", "s">>,
     <<"F", "r", "e", "e", "B", "S", "D">>,
     <<>>,
     <<"l", "i", "n", "u", "x", "2">>,
     <<"W", "i", "n", "d", "o", "w", "s", "_", "N", "T">>,
     <<"D", "A", "R", "W", "I", "N">>}

\* The platform argument of generate_install_commands: None, the four tags
\* and another str.
PlatformArgs ==
    {None} \cup {Some(p) : p \in {STR_windows, STR_macos, STR_linux, STR_unknown,
                                  <<"f", "r", "e", "e", "b", "s", "d">>}}

\* The format argument of generate_install_commands.
FormatArgs == {"text", "json", "yaml"}

\* What run_command is tried on: every standard output over these
\* characters up to MaxOutLen, three exit statuses, a run shorter and a run
\* longer than the timeout, and two failed invocations.
OutAlphabet == {" ", "\n", "v"}
ReturnCodes == {0, 1, 127}
Durations == {1, 6}
ErrorMessages == {STR_oserror, <<>>}

ExecutionOutcomes ==
    {Exited(rc, out, d) : rc \in ReturnCodes,
                          out \in StrsUpTo(OutAlphabet, MaxOutLen),
                          d \in Durations}
    \cup {Failed(m) : m \in ErrorMessages}

\* The command lines main() of install_env.py is tried on.
ArgvSet ==
    [framework : {None} \cup {Some(n) : n \in FrameworkNames},
     list : BOOLEAN,
     platform : PlatformChoices \cup {STR_unknown},
     format : FormatChoices \cup {"yaml"}]

---------------------------------------------------------------------------
(* The operations of the two scripts, called on their own.                 *)

\* The probes that decide whether a tool is reported as installed.
PresenceCommands ==
    {"python3 --version", "python --version", "node --version",
     "java -version", "mysql --version", "psql --version",
     "mongod --version", "redis-cli --version", "sqlite3 --version",
     "git --version"}

\* No check function is running.
NoLocals == [function |-> "none"]

\* The state of check_env.py's main() before it starts.
CheckIdle ==
    /\ pc = "not_started"
    /\ loc = NoLocals
    /\ env_info = [platform |-> None, python |-> None, nodejs |-> None,
                   java |-> None, databases |-> None, git |-> None]
    /\ execCount = [c \in Commands |-> 0]
    /\ presence = [c \in PresenceCommands |-> "not run"]
    /\ prov = <<>>

Init ==
    /\ osName = None
    /\ op = [name |-> "none"]
    /\ ret = None
    /\ stdout = <<>>
    /\ exitCode = None
    /\ detectCalls = 0
    /\ shellCalls = 0
    /\ CheckIdle

\* No call is in progress: the caller has taken the last result.
Idle == op.name = "none"

\* The hosts an operation is tried on: every one when it may ask for the
\* platform (lines 260 and 335: only without an explicit platform), else
\* one, which it never looks at.
HostsFor(mayAsk) == IF mayAsk THEN OSNames ELSE {STR_Linux}

GetFrameworkInfo ==
    /\ Idle
    /\ \E framework_name \in FrameworkNames :
        /\ op' = [name |-> "get_framework_info",
                  framework_name |-> framework_name]
        /\ ret' = get_framework_info(framework_name)
    /\ stdout' = <<>>
    /\ exitCode' = None
    /\ detectCalls' = 0
    /\ shellCalls' = 0
    /\ osName' = None
    /\ UNCHANGED checkVars

\* generate_install_commands, on a host whose platform.system() is system.
GenerateInstallCommands ==
    /\ Idle
    /\ \E framework_name \in FrameworkNames, platform \in PlatformArgs,
          format \in FormatArgs :
         \E system \in HostsFor(platform.isNone) :
           LET g == generate_install_commands(framework_name, platform,
                                              format, system)
           IN  /\ op' = [name |-> "generate_install_commands",
                         framework_name |-> framework_name,
                         platform |-> platform, format |-> format]
               /\ ret' = g.ret
               /\ detectCalls' = g.detect_calls
               /\ osName' = IF g.detect_calls > 0 THEN Some(system) ELSE None
    /\ stdout' = <<>>
    /\ exitCode' = None
    /\ shellCalls' = 0
    /\ UNCHANGED checkVars

ListAvailableFrameworks ==
    /\ Idle
    /\ op' = [name |-> "list_available_frameworks"]
    /\ ret' = list_available_frameworks
    /\ stdout' = <<>>
    /\ exitCode' = None
    /\ detectCalls' = 0
    /\ shellCalls' = 0
    /\ osName' = None
    /\ UNCHANGED checkVars

\* install_env.py run as a program, on a host whose platform.system() is
\* system.
Main ==
    /\ Idle
    /\ \E argv \in ArgvSet :
         \E system \in HostsFor(argv.platform = STR_auto) :
           LET m == main(argv, system)
           IN  /\ op' = [name |-> "main", argv |-> argv]
               /\ stdout' = m.stdout
               /\ exitCode' = Some(m.exit)
               /\ detectCalls' = m.detect_calls
               /\ osName' = IF m.detect_calls > 0 THEN Some(system) ELSE None
    /\ ret' = None
    /\ shellCalls' = 0
    /\ UNCHANGED checkVars

\* detect_platform() of install_env.py (script = "install_env") or of
\* check_env.py (script = "check_env"), on a host whose platform.system()
\* is system.
DetectPlatform ==
    /\ Idle
    /\ \E script \in {"install_env", "check_env"}, system \in OSNames :
        /\ op' = [name |-> "detect_platform", script |-> script]
        /\ ret' = IF script = "install_env" THEN detect_platform(system)
                  ELSE check_detect_platform(system)
        /\ osName' = Some(system)
    /\ stdout' = <<>>
    /\ exitCode' = None
    /\ detectCalls' = 1
    /\ shellCalls' = 0
    /\ UNCHANGED checkVars

\* run_command on a command line whose execution does o.
RunCommand ==
    /\ Idle
    /\ \E o \in ExecutionOutcomes :
        /\ op' = [name |-> "run_command", outcome |-> o]
        /\ ret' = run_command(o)
    /\ stdout' = <<>>
    /\ exitCode' = None
    /\ detectCalls' = 0
    /\ shellCalls' = 1
    /\ osName' = None
    /\ UNCHANGED checkVars

\* The caller takes the result; the next call starts afresh (no operation
\* keeps anything from one call to the next).
Return ==
    /\ ~Idle
    /\ op' = [name |-> "none"]
    /\ ret' = None
    /\ stdout' = <<>>
    /\ exitCode' = None
    /\ detectCalls' = 0
    /\ shellCalls' = 0
    /\ osName' = None
    /\ UNCHANGED checkVars

Next ==
    \/ GetFrameworkInfo
    \/ GenerateInstallCommands
    \/ ListAvailableFrameworks
    \/ Main
    \/ DetectPlatform
    \/ RunCommand
    \/ Return

Spec == Init /\ [][Next]_vars

---------------------------------------------------------------------------
(* check_env.py run as a program: main() and the check functions it calls, *)
(* one step for each run_command call.                                     *)

\* The host the prober is run on (main only copies the platform tag into
\* the report; detect_platform is tried on every OS name above).
CheckHosts == {STR_Linux}

\* How the execution of a command line may end on those hosts: exit
\* status 0, another exit status, still running at the timeout, or not
\* started at all.
Outcomes(command) ==
    {Exited(0, StdoutOf(command), 1),
     Exited(1, StdoutOf(command), 1),
     Exited(0, StdoutOf(command), 6),
     Failed(STR_oserror)}

InitCheck ==
    /\ osName = None
    /\ op = [name |-> "check_env"]
    /\ ret = None
    /\ stdout = <<>>
    /\ exitCode = None
    /\ detectCalls = 0
    /\ shellCalls = 0
    /\ pc = "main"
    /\ loc = NoLocals
    /\ env_info = [platform |-> None, python |-> None, nodejs |-> None,
                   java |-> None, databases |-> None, git |-> None]
    /\ execCount = [c \in Commands |-> 0]
    /\ presence = [c \in PresenceCommands |-> "not run"]
    /\ prov = <<>>

\* The bookkeeping of one execution of command that returned r.
Executed(command, r) ==
    /\ execCount' = [execCount EXCEPT ![command] = @ + 1]
    /\ shellCalls' = shellCalls + 1
    /\ presence' = IF command \in PresenceCommands /\ r.form = "tuple"
                   THEN [presence EXCEPT
                            ![command] = IF r.success THEN "ok" ELSE "failed"]
                   ELSE presence

\* The n-th execution of command.
Execution(command, n) == [command |-> command, nth |-> n]

\* The report's value at field is the output of execution `value`, reported
\* because of the success flag of execution `flag`.
Reported(field, flag, value) == field :> [flag |-> flag, value |-> value]

\* An exception run_command let through leaves main(): a traceback, exit
\* status 1.
Uncaught ==
    /\ pc' = "raised"
    /\ exitCode' = Some(1)
    /\ UNCHANGED <<loc, env_info, prov, ret>>

\* print(...) of one line.
Printed(line) == stdout' = Append(stdout, FString(<<line>>))

\* Lines 174-175: detect the platform, print it.
Start ==
    /\ pc = "main"
    /\ \E system \in CheckHosts :
        /\ osName' = Some(system)
        /\ env_info' = [env_info EXCEPT
                           !.platform = Some(check_detect_platform(system))]
        /\ stdout' = Append(stdout,
                            FString(<<"detected OS: ",
                                      str_upper(check_detect_platform(system)),
                                      "\n">>))
    /\ detectCalls' = detectCalls + 1
    /\ pc' = "python3_version"
    /\ UNCHANGED <<op, ret, exitCode, shellCalls, loc, execCount, presence, prov>>

\* check_python, line 56.
Python3Version ==
    /\ pc = "python3_version"
    /\ \E o \in Outcomes("python3 --version") :
        LET r == run_command(o) IN
        /\ Executed("python3 --version", r)
        /\ IF r.form = "raise" THEN Uncaught
           ELSE /\ loc' = [function |-> "check_python", success |-> r.success,
                           version |-> r.output,
                           from |-> Execution("python3 --version", 1)]
                /\ pc' = IF r.success THEN "pip3_version" ELSE "python_version"
                /\ UNCHANGED <<env_info, prov, ret, exitCode>>
    /\ Printed("checking the Python environment...")
    /\ UNCHANGED <<osName, op, detectCalls>>

\* check_python, lines 57-59 and, when python is missing too, 73-78.
PythonVersion ==
    /\ pc = "python_version"
    /\ \E o \in Outcomes("python --version") :
        LET r == run_command(o) IN
        /\ Executed("python --version", r)
        /\ IF r.form = "raise" THEN Uncaught
           ELSE /\ IF r.success
                   THEN /\ loc' = [loc EXCEPT
                                      !.success = r.success,
                                      !.version = r.output,
                                      !.from = Execution("python --version", 1)]
                        /\ pc' = "pip3_version"
                        /\ UNCHANGED env_info
                   ELSE /\ env_info' = [env_info EXCEPT !.python =
                               Some(python_record(FALSE, r.output, <<>>, FALSE))]
                        /\ loc' = NoLocals
                        /\ pc' = "node_version"
                /\ UNCHANGED <<prov, ret, exitCode>>
    /\ UNCHANGED <<osName, op, detectCalls, stdout>>

\* check_python, line 63.
Pip3Version ==
    /\ pc = "pip3_version"
    /\ \E o \in Outcomes("pip3 --version") :
        LET r == run_command(o) IN
        /\ Executed("pip3 --version", r)
        /\ IF r.form = "raise" THEN Uncaught
           ELSE /\ loc' = [function |-> "check_python", success |-> loc.success,
                           version |-> loc.version, from |-> loc.from,
                           pip_success |-> r.success]
                /\ pc' = IF r.success THEN "which_python3" ELSE "pip_version"
                /\ UNCHANGED <<env_info, prov, ret, exitCode>>
    /\ UNCHANGED <<osName, op, detectCalls, stdout>>

\* check_python, lines 64-65.
PipVersion ==
    /\ pc = "pip_version"
    /\ \E o \in Outcomes("pip --version") :
        LET r == run_command(o) IN
        /\ Executed("pip --version", r)
        /\ IF r.form = "raise" THEN Uncaught
           ELSE /\ loc' = [loc EXCEPT !.pip_success = r.success]
                /\ pc' = "which_python3"
                /\ UNCHANGED <<env_info, prov, ret, exitCode>>
    /\ UNCHANGED <<osName, op, detectCalls, stdout>>

\* check_python, line 70: the condition run_command("which python3")[0].
WhichPython3 ==
    /\ pc = "which_python3"
    /\ \E o \in Outcomes("which python3") :
        LET r == run_command(o) IN
        /\ Executed("which python3", r)
        /\ IF r.form = "raise" THEN Uncaught
           ELSE /\ pc' = IF r.success THEN "which_python3_again"
                         ELSE "which_python"
                /\ UNCHANGED <<loc, env_info, prov, ret, exitCode>>
    /\ UNCHANGED <<osName, op, detectCalls, stdout>>

\* The return of check_python, lines 67-72, with the path found.
ReturnPython(path, pathFrom) ==
    /\ env_info' = [env_info EXCEPT !.python =
           Some(python_record(loc.success, loc.version, path, loc.pip_success))]
    /\ prov' = prov @@ Reported("python.version", loc.from, loc.from)
                    @@ Reported("python.path",
                                Execution("which python3", 1), pathFrom)
    /\ loc' = NoLocals
    /\ pc' = "node_version"

\* check_python, line 70: the value run_command("which python3")[1].
WhichPython3Again ==
    /\ pc = "which_python3_again"
    /\ \E o \in Outcomes("which python3") :
        LET r == run_command(o) IN
        /\ Executed("which python3", r)
        /\ IF r.form = "raise" THEN Uncaught
           ELSE /\ ReturnPython(r.output,
                                Execution("which python3",
                                          execCount'["which python3"]))
                /\ UNCHANGED <<ret, exitCode>>
    /\ UNCHANGED <<osName, op, detectCalls, stdout>>

\* check_python, line 70: the value run_command("which python")[1].
WhichPython ==
    /\ pc = "which_python"
    /\ \E o \in Outcomes("which python") :
        LET r == run_command(o) IN
        /\ Executed("which python", r)
        /\ IF r.form = "raise" THEN Uncaught
           ELSE /\ ReturnPython(r.output,
                                Execution("which python",
                                          execCount'["which python"]))
                /\ UNCHANGED <<ret, exitCode>>
    /\ UNCHANGED <<osName, op, detectCalls, stdout>>

\* check_nodejs, line 88 and, when node is missing, lines 99-104.
NodeVersion ==
    /\ pc = "node_version"
    /\ \E o \in Outcomes("node --version") :
        LET r == run_command(o) IN
        /\ Executed("node --version", r)
        /\ IF r.form = "raise" THEN Uncaught
           ELSE /\ IF r.success
                   THEN /\ loc' = [function |-> "check_nodejs",
                                   success |-> r.success, version |-> r.output]
                        /\ pc' = "npm_version"
                        /\ UNCHANGED env_info
                   ELSE /\ env_info' = [env_info EXCEPT !.nodejs =
                               Some(nodejs_record(FALSE, r.output, FALSE, <<>>, None))]
                        /\ loc' = NoLocals
                        /\ pc' = "java_version"
                /\ UNCHANGED <<prov, ret, exitCode>>
    /\ Printed("checking the Node.js environment...")
    /\ UNCHANGED <<osName, op, detectCalls>>

\* check_nodejs, line 91.
NpmVersion ==
    /\ pc = "npm_version"
    /\ \E o \in Outcomes("npm --version") :
        LET r == run_command(o) IN
        /\ Executed("npm --version", r)
        /\ IF r.form = "raise" THEN Uncaught
           ELSE /\ loc' = [function |-> "check_nodejs", success |-> loc.success,
                           version |-> loc.version,
                           npm_success |-> r.success, npm_version |-> r.output]
                /\ pc' = "which_node"
                /\ UNCHANGED <<env_info, prov, ret, exitCode>>
    /\ UNCHANGED <<osName, op, detectCalls, stdout>>

\* The return of check_nodejs, lines 93-98; pathFrom is the execution the
\* path is the output of.
ReturnNodejs(path, pathFrom) ==
    /\ env_info' = [env_info EXCEPT !.nodejs =
           Some(nodejs_record(loc.success, loc.version, loc.npm_success,
                              loc.npm_version, path))]
    /\ prov' = prov
                 @@ Reported("nodejs.version", Execution("node --version", 1),
                             Execution("node --version", 1))
                 @@ (IF loc.npm_success
                     THEN Reported("nodejs.npm_version",
                                   Execution("npm --version", 1),
                                   Execution("npm --version", 1))
                     ELSE <<>>)
                 @@ (IF path.isNone THEN <<>>
                     ELSE Reported("nodejs.path",
                                   Execution("which node", 1), pathFrom))
    /\ loc' = NoLocals
    /\ pc' = "java_version"

\* check_nodejs, line 97: the condition run_command("which node")[0].
WhichNode ==
    /\ pc = "which_node"
    /\ \E o \in Outcomes("which node") :
        LET r == run_command(o) IN
        /\ Executed("which node", r)
        /\ IF r.form = "raise" THEN Uncaught
           ELSE /\ IF r.success
                   THEN /\ pc' = "which_node_again"
                        /\ UNCHANGED <<loc, env_info, prov>>
                   ELSE ReturnNodejs(None, None)
                /\ UNCHANGED <<ret, exitCode>>
    /\ UNCHANGED <<osName, op, detectCalls, stdout>>

\* check_nodejs, line 97: the value run_command("which node")[1].
WhichNodeAgain ==
    /\ pc = "which_node_again"
    /\ \E o \in Outcomes("which node") :
        LET r == run_command(o) IN
        /\ Executed("which node", r)
        /\ IF r.form = "raise" THEN Uncaught
           ELSE /\ ReturnNodejs(Some(r.output),
                                Execution("which node", execCount'["which node"]))
                /\ UNCHANGED <<ret, exitCode>>
    /\ UNCHANGED <<osName, op, detectCalls, stdout>>

\* check_java, line 113 and, when java is missing, lines 125-129.
JavaVersion ==
    /\ pc = "java_version"
    /\ \E o \in Outcomes("java -version") :
        LET r == run_command(o) IN
        /\ Executed("java -version", r)
        /\ IF r.form = "raise" THEN Uncaught
           ELSE /\ IF r.success
                   THEN /\ loc' = [function |-> "check_java",
                                   success |-> r.success, version |-> r.output]
                        /\ pc' = "java_version_head"
                        /\ UNCHANGED env_info
                   ELSE /\ env_info' = [env_info EXCEPT !.java =
                               Some(java_record(FALSE, r.output, None))]
                        /\ loc' = NoLocals
                        /\ pc' = "databases"
                /\ UNCHANGED <<prov, ret, exitCode>>
    /\ Printed("checking the Java environment...")
    /\ UNCHANGED <<osName, op, detectCalls>>

\* check_java, lines 116-118: success and version are assigned again; the
\* dict is built only on this path, so installed stays True.
JavaVersionHead ==
    /\ pc = "java_version_head"
    /\ \E o \in Outcomes("java -version 2>&1 | head -n 1") :
        LET r == run_command(o) IN
        /\ Executed("java -version 2>&1 | head -n 1", r)
        /\ IF r.form = "raise" THEN Uncaught
           ELSE /\ loc' = [function |-> "check_java", success |-> r.success,
                           version |-> java_version(r.success, r.output)]
                /\ pc' = "which_java"
                /\ UNCHANGED <<env_info, prov, ret, exitCode>>
    /\ UNCHANGED <<osName, op, detectCalls, stdout>>

\* The return of check_java, lines 120-124.
ReturnJava(path, pathFrom) ==
    /\ env_info' = [env_info EXCEPT !.java =
           Some(java_record(TRUE, loc.version, path))]
    /\ prov' = prov
                 @@ (IF loc.success
                     THEN Reported("java.version",
                                   Execution("java -version 2>&1 | head -n 1", 1),
                                   Execution("java -version 2>&1 | head -n 1", 1))
                     ELSE <<>>)
                 @@ (IF path.isNone THEN <<>>
                     ELSE Reported("java.path",
                                   Execution("which java", 1), pathFrom))
    /\ loc' = NoLocals
    /\ pc' = "databases"

\* check_java, line 123: the condition run_command("which java")[0].
WhichJava ==
    /\ pc = "which_java"
    /\ \E o \in Outcomes("which java") :
        LET r == run_command(o) IN
        /\ Executed("which java", r)
        /\ IF r.form = "raise" THEN Uncaught
           ELSE /\ IF r.success
                   THEN /\ pc' = "which_java_again"
                        /\ UNCHANGED <<loc, env_info, prov>>
                   ELSE ReturnJava(None, None)
                /\ UNCHANGED <<ret, exitCode>>
    /\ UNCHANGED <<osName, op, detectCalls, stdout>>

\* check_java, line 123: the value run_command("which java")[1].
WhichJavaAgain ==
    /\ pc = "which_java_again"
    /\ \E o \in Outcomes("which java") :
        LET r == run_command(o) IN
        /\ Executed("which java", r)
        /\ IF r.form = "raise" THEN Uncaught
           ELSE /\ ReturnJava(Some(r.output),
                              Execution("which java", execCount'["which java"]))
                /\ UNCHANGED <<ret, exitCode>>
    /\ UNCHANGED <<osName, op, detectCalls, stdout>>

\* check_databases: the next probe of lines 139-143, with the entry the
\* loop of lines 147-151 makes of its result (the loop reads each result
\* once, and nothing else does); after the last one the function returns.
DatabaseVersion ==
    /\ pc = "databases"
    /\ LET done == IF loc.function = "check_databases" THEN loc.result ELSE <<>>
           i == Len(done) + 1
           db == Databases[i]
       IN  \E o \in Outcomes(db.command) :
             LET r == run_command(o) IN
             /\ Executed(db.command, r)
             /\ IF r.form = "raise" THEN Uncaught
                ELSE LET result == Append(done, tool_record(r.success, r.output))
                     IN  /\ prov' = prov @@
                               (IF r.success
                                THEN Reported(db.name,
                                              Execution(db.command, 1),
                                              Execution(db.command, 1))
                                ELSE <<>>)
                         /\ IF i < Len(Databases)
                            THEN /\ loc' = [function |-> "check_databases",
                                            result |-> result]
                                 /\ pc' = "databases"
                                 /\ UNCHANGED env_info
                            ELSE /\ env_info' = [env_info EXCEPT !.databases =
                                        Some([n \in {Databases[k].name :
                                                       k \in 1..Len(Databases)} |->
                                              result[CHOOSE k \in 1..Len(Databases) :
                                                       Databases[k].name = n]])]
                                 /\ loc' = NoLocals
                                 /\ pc' = "git_version"
                         /\ UNCHANGED <<ret, exitCode>>
             /\ stdout' = IF i = 1
                          THEN Append(stdout,
                                  FString(<<"checking the database environment...">>))
                          ELSE stdout
    /\ UNCHANGED <<osName, op, detectCalls>>

\* The dict of lines 177-184, once every check function has returned.
report(e) ==
    [platform |-> e.platform.val, python |-> e.python.val,
     nodejs |-> e.nodejs.val, java |-> e.java.val,
     databases |-> e.databases.val, git |-> e.git.val]

\* check_git, lines 160-166, and then the rest of main, lines 177-190:
\* build the report, print it, return it.
GitVersion ==
    /\ pc = "git_version"
    /\ \E o \in Outcomes("git --version") :
        LET r == run_command(o) IN
        /\ Executed("git --version", r)
        /\ IF r.form = "raise"
           THEN /\ Uncaught
                /\ Printed("checking the Git environment...")
           ELSE /\ env_info' = [env_info EXCEPT !.git =
                                   Some(tool_record(r.success, r.output))]
                /\ prov' = prov @@
                      (IF r.success
                       THEN Reported("git", Execution("git --version", 1),
                                     Execution("git --version", 1))
                       ELSE <<>>)
                /\ stdout' = stdout \o
                      <<FString(<<"checking the Git environment...">>),
                        FString(<<"\nresult of the check (JSON):">>),
                        JsonDump(report(env_info'))>>
                /\ ret' = Some(report(env_info'))
                /\ exitCode' = Some(0)
                /\ pc' = "done"
                /\ UNCHANGED loc
    /\ UNCHANGED <<osName, op, detectCalls>>

NextCheck ==
    \/ Start
    \/ Python3Version
    \/ PythonVersion
    \/ Pip3Version
    \/ PipVersion
    \/ WhichPython3
    \/ WhichPython3Again
    \/ WhichPython
    \/ NodeVersion
    \/ NpmVersion
    \/ WhichNode
    \/ WhichNodeAgain
    \/ JavaVersion
    \/ JavaVersionHead
    \/ WhichJava
    \/ WhichJavaAgain
    \/ DatabaseVersion
    \/ GitVersion

SpecCheck == InitCheck /\ [][NextCheck]_vars

---------------------------------------------------------------------------
(* The claims.  Each is stated from the specification's words, with its    *)
(* own reading of "contains", "normalized" and "trimmed", so that the      *)
(* functions above are what decides it.                                    *)

\* b contains a: b is some prefix, then a, then some suffix.
Contains(a, b) ==
    \E n \in 0..Len(b) :
        /\ n + Len(a) <= Len(b)
        /\ \A k \in 1..Len(a) : b[n + k] = a[k]

\* s in lower case.
Lowered(s) == [k \in 1..Len(s) |-> char_lower(s[k])]

\* name in lower case with every "." and "-" removed.
Normalized(name) ==
    LET kept == SelectSeq(name, LAMBDA ch : ch \notin {".", "-"})
    IN  Lowered(kept)

\* The entries of the table whose key the name matches, either way round.
Matching(name) ==
    {i \in 1..Len(FRAMEWORK_INSTALL_COMMANDS) :
        \/ Contains(FRAMEWORK_INSTALL_COMMANDS[i].key, Normalized(name))
        \/ Contains(Normalized(name), FRAMEWORK_INSTALL_COMMANDS[i].key)}

\* The first of them in declaration order.
FirstMatching(name) ==
    CHOOSE i \in Matching(name) : \A j \in Matching(name) : i <= j

\* The record the name resolves to, as the specification describes it.
Resolved(name) ==
    IF Matching(name) = {} THEN None
    ELSE Some(FRAMEWORK_INSTALL_COMMANDS[FirstMatching(name)].value)

\* The platform tags an install-command payload may be keyed by.
KeyedPlatforms == {STR_windows, STR_macos, STR_linux}

\* The platform a call of generate_install_commands resolved: the one
\* given, or the one detected on the host.
ResolvedPlatform ==
    IF op.platform.isNone THEN detect_platform(osName.val) ELSE op.platform.val

STR_react == <<"r", "e", "a", "c", "t">>
STR_React == <<"R", "e", "a", "c", "t">>
STR_reactjs == <<"r", "e", "a", "c", "t", "j", "s">>
STR_doesnotexist == <<"d", "o", "e", "s", "n", "o", "t", "e", "x", "i", "s", "t">>
STR_hugo == <<"h", "u", "g", "o">>
STR_flask == <<"f", "l", "a", "s", "k">>
STR_Vue_js == <<"V", "u", "e", ".", "j", "s">>
STR_linux2 == <<"l", "i", "n", "u", "x", "2">>

\* C1: generate_install_commands with format "json" on a framework whose
\* payload is platform-keyed and a platform p among windows, macos and
\* linux returns a structured result whose detected_platform is p and whose
\* install command list is exactly the framework's entries for p.
C1_JsonHoldsThePlatformsCommands ==
    (/\ op.name = "generate_install_commands"
     /\ op.format = "json"
     /\ ~op.platform.isNone
     /\ op.platform.val \in KeyedPlatforms
     /\ ~Resolved(op.framework_name).isNone
     /\ Resolved(op.framework_name).val.install_commands.isdict)
    => /\ ret.form = "json"
       /\ ret.obj.detected_platform = op.platform.val
       /\ ~ret.obj.install_commands.isdict
       /\ ret.obj.install_commands.list =
              Resolved(op.framework_name).val.install_commands.dict[op.platform.val]

\* C2: get_framework_info normalizes the name (lower case, every "." and
\* "-" removed) and returns the record of the first key in declaration
\* order that the normalized name contains or that contains it, None when
\* there is none; so names that differ only in case, "." or "-" resolve
\* alike, "React" and "react" to the react record, and so does "reactjs".
C2_FuzzyLookup ==
    op.name = "get_framework_info"
    => /\ ret = Resolved(op.framework_name)
       /\ ret = Resolved(Normalized(op.framework_name))
       /\ op.framework_name \in {STR_react, STR_React, STR_reactjs}
              => ret = Some(Record_react)

C2_Witness ==
    /\ op.name = "get_framework_info"
    /\ op.framework_name = STR_reactjs
    /\ ret = Some(Record_react)

\* C3: when the framework name matches no key, generate_install_commands
\* returns, for every platform argument and format, a plain string that
\* begins with the not-found indicator and names the requested framework;
\* it raises nothing, detects no platform and runs no shell command.
C3_UnknownFramework ==
    (/\ op.name = "generate_install_commands"
     /\ Matching(op.framework_name) = {})
    => /\ ret.form = "fstring"
       /\ Len(ret.parts) = 3
       /\ ret.parts[1] = NOT_FOUND_PREFIX
       /\ ret.parts[2] = op.framework_name
       /\ detectCalls = 0
       /\ osName = None
       /\ shellCalls = 0

C3_Witness ==
    /\ op.name = "generate_install_commands"
    /\ op.framework_name = STR_doesnotexist
    /\ op.platform = None
    /\ op.format = "text"
    /\ ret.form = "fstring"
    /\ ret.parts[1] = NOT_FOUND_PREFIX

\* C4: when the resolved framework's payload is platform-keyed and the
\* resolved platform (given, or detected when None) has no entry in it,
\* generate_install_commands returns, for either format, a warning string
\* that holds the framework's description and prerequisites; when the
\* payload is a flat list its commands are rendered whatever the platform;
\* and it never raises.
C4_MissingPlatform ==
    (/\ op.name = "generate_install_commands"
     /\ Matching(op.framework_name) # {})
    => LET info == Resolved(op.framework_name).val
           payload == info.install_commands
       IN  /\ ret.form # "raise"
           /\ (payload.isdict /\ ResolvedPlatform \notin KeyedPlatforms)
                => /\ ret.form = "fstring"
                   /\ ret.parts[1] = NO_PLATFORM_PREFIX
                   /\ ret.parts[2] = ResolvedPlatform
                   /\ ret.parts[6] = info.description
                   /\ ret.parts[8] = str_join(info.prerequisites)
           /\ ~payload.isdict
                => IF op.format = "json"
                   THEN /\ ret.form = "json"
                        /\ ret.obj.install_commands = payload
                        /\ ret.obj.detected_platform = ResolvedPlatform
                   ELSE /\ ret.form = "lines"
                        /\ \A k \in 1..Len(payload.list) :
                               ret.lines[6 + k] = <<payload.list[k]>>

C4_Witness ==
    /\ op.name = "generate_install_commands"
    /\ op.framework_name = STR_hugo
    /\ op.platform = None
    /\ op.format = "json"
    /\ detect_platform(osName.val) = STR_unknown
    /\ ret.form = "fstring"
    /\ ret.parts[1] = NO_PLATFORM_PREFIX

\* out is stdout with the whitespace at both ends removed.
Trimmed(out, raw) ==
    \E i \in 1..(Len(raw) + 1), j \in 0..Len(raw) :
        /\ out = [k \in 1..(j - i + 1) |-> raw[i + k - 1]]
        /\ \A k \in 1..(i - 1) : raw[k] \in Whitespace
        /\ \A k \in (j + 1)..Len(raw) : raw[k] \in Whitespace
        /\ out # <<>> => out[1] \notin Whitespace /\ out[Len(out)] \notin Whitespace

\* C5: run_command never raises; it returns (True, trimmed stdout) exactly
\* when the command exits with status 0, (False, trimmed stdout) on another
\* exit status, (False, "Command timeout") when the 5-second timeout
\* fires, and (False, message) on any other invocation error.
C5_RunCommand ==
    op.name = "run_command"
    => LET o == op.outcome IN
       /\ ret.form = "tuple"
       /\ o.kind = "error" => ret.success = FALSE /\ ret.output = o.message
       /\ (o.kind = "exit" /\ o.duration > 5)
            => ret.success = FALSE /\ ret.output = STR_command_timeout
       /\ (o.kind = "exit" /\ o.duration < 5)
            => /\ ret.success = (o.returncode = 0)
               /\ Trimmed(ret.output, o.stdout)
       /\ ret.success <=> (o.kind = "exit" /\ o.duration < 5 /\ o.returncode = 0)

C5_Witness ==
    /\ op.name = "run_command"
    /\ op.outcome = Exited(0, <<" ", "v", "\n">>, 1)
    /\ ret = Pair(TRUE, <<"v">>)

\* The per-tool records the prober has built so far: those of the report
\* and, while check_databases runs, those of its result.
ToolRecords ==
    {env_info[f].val : f \in {g \in {"python", "nodejs", "java", "git"} :
                                ~env_info[g].isNone}}
    \cup (IF env_info.databases.isNone THEN {}
          ELSE {env_info.databases.val[n] : n \in DOMAIN env_info.databases.val})
    \cup (IF loc.function = "check_databases"
          THEN {loc.result[k] : k \in 1..Len(loc.result)}
          ELSE {})

\* The record of a tool that is reported as missing.
Missing(record) == record.installed = FALSE /\ record.version = None

\* C6: whatever way each probe ends (success, another exit status,
\* timeout, invocation error), the prober's main runs to completion and
\* returns a report with the fields platform, python, nodejs, java,
\* databases and git; a tool whose presence probes all failed is reported
\* with installed false and version null; and no per-tool record has
\* installed false together with a version.
C6_ProbeFailuresDegrade ==
    /\ pc # "raised"
    /\ pc # "done" => ENABLED NextCheck
    /\ pc = "done"
         => /\ exitCode = Some(0)
            /\ ~ret.isNone
            /\ DOMAIN ret.val = {"platform", "python", "nodejs", "java",
                                 "databases", "git"}
            /\ ret.val.platform \in {STR_windows, STR_macos, STR_linux, STR_unknown}
            /\ DOMAIN ret.val.databases =
                   {"mysql", "postgresql", "mongodb", "redis", "sqlite3"}
            /\ \A k \in 1..Len(Databases) :
                   presence[Databases[k].command] = "failed"
                       => Missing(ret.val.databases[Databases[k].name])
            /\ presence["git --version"] = "failed" => Missing(ret.val.git)
    /\ \A record \in ToolRecords :
           /\ {"installed", "version"} \subseteq DOMAIN record
           /\ record.installed = FALSE => record.version = None
    /\ (presence["python3 --version"] = "failed"
            /\ presence["python --version"] = "failed")
         => ~env_info.python.isNone /\ Missing(env_info.python.val)
    /\ presence["node --version"] = "failed"
         => ~env_info.nodejs.isNone /\ Missing(env_info.nodejs.val)
    /\ presence["java -version"] = "failed"
         => ~env_info.java.isNone /\ Missing(env_info.java.val)

C6_Witness ==
    /\ pc = "done"
    /\ presence["python3 --version"] = "failed"
    /\ presence["python --version"] = "failed"
    /\ Missing(ret.val.python)
    /\ presence["git --version"] = "ok"
    /\ ret.val.git.installed
    /\ Missing(ret.val.databases["redis"])

\* The three names, as platform.system() may spell them, that the OS name
\* is matched against.
OSKeywords == <<STR_windows, STR_darwin, STR_linux>>
OSTags == <<STR_windows, STR_macos, STR_linux>>

\* C7 as claimed: detect_platform, in both scripts, depends on the OS name
\* alone, returns one of windows, macos, linux and unknown, and decides by
\* a case-insensitive match on the substrings "windows", "darwin" and
\* "linux": a name that contains one of them maps to its tag, and only a
\* name that contains none maps to unknown.
C7_SubstringMatch ==
    op.name = "detect_platform"
    => LET low == Lowered(osName.val) IN
       /\ ret \in {STR_windows, STR_macos, STR_linux, STR_unknown}
       /\ \A k \in 1..3 : Contains(OSKeywords[k], low) => ret = OSTags[k]
       /\ ret = STR_unknown => \A k \in 1..3 : ~Contains(OSKeywords[k], low)

\* C7 as amended: detect_platform, in both scripts, depends on the OS name
\* alone, returns one of windows, macos, linux and unknown, and decides by
\* a case-insensitive comparison of the whole name with "windows",
\* "darwin" and "linux": a name equal to one of them but for case maps to
\* its tag, and every other name, also one that contains one of them, maps
\* to unknown.
C7_WholeNameMatch ==
    op.name = "detect_platform"
    => LET low == Lowered(osName.val) IN
       /\ ret \in {STR_windows, STR_macos, STR_linux, STR_unknown}
       /\ \A k \in 1..3 : low = OSKeywords[k] <=> ret = OSTags[k]
       /\ ret = STR_unknown <=> \A k \in 1..3 : low # OSKeywords[k]

C7_Witness ==
    /\ op.name = "detect_platform"
    /\ op.script = "check_env"
    /\ osName = Some(STR_linux2)
    /\ ret = STR_unknown

\* What main of install_env.py prints without --list and without a
\* framework.
HelpAndHints ==
    <<HELP,
      FString(<<"\nHints:">>),
      FString(<<"  - use --list to see the supported frameworks">>),
      FString(<<"  - use --platform to name the OS when detection fails">>)>>

\* What main prints for a framework: generate_install_commands with
\* platform None when --platform is auto, else with the platform given.
ExpectedGenerated ==
    generate_install_commands(
        op.argv.framework.val,
        IF op.argv.platform = STR_auto THEN None ELSE Some(op.argv.platform),
        op.argv.format,
        IF osName.isNone THEN STR_Linux ELSE osName.val).ret

\* The command line parses: --platform and --format hold one of their
\* choices.
Parses(argv) ==
    /\ argv.platform \in {STR_windows, STR_macos, STR_linux, STR_auto}
    /\ argv.format \in {"text", "json"}

\* C8 as claimed: with --list set main prints the catalog and nothing
\* else, also when --framework is given; otherwise, when --framework is
\* given, it prints generate_install_commands for it, with platform None
\* when --platform is auto and the platform given otherwise; with neither
\* it prints the usage help and the static hints; a lookup miss is only
\* printed and the exit status stays 0.
C8_DispatchOnFlagsGiven ==
    (op.name = "main" /\ Parses(op.argv))
    => /\ exitCode = Some(0)
       /\ op.argv.list => stdout = <<list_available_frameworks>>
       /\ (~op.argv.list /\ ~op.argv.framework.isNone)
            => stdout = <<ExpectedGenerated>>
       /\ (~op.argv.list /\ op.argv.framework.isNone)
            => stdout = HelpAndHints

\* C8 as amended: with --list set main prints the catalog and nothing
\* else, also when --framework is given; otherwise, when --framework is
\* given and not the empty string, it prints generate_install_commands for
\* it, with platform None when --platform is auto and the platform given
\* otherwise; without --list and with --framework absent or empty it
\* prints the usage help and the static hints; a lookup miss is only
\* printed and the exit status stays 0.
C8_DispatchOnFlags ==
    (op.name = "main" /\ Parses(op.argv))
    => /\ exitCode = Some(0)
       /\ op.argv.list => stdout = <<list_available_frameworks>>
       /\ (~op.argv.list /\ ~op.argv.framework.isNone
             /\ op.argv.framework.val # <<>>)
            => stdout = <<ExpectedGenerated>>
       /\ (~op.argv.list
             /\ (op.argv.framework.isNone \/ op.argv.framework.val = <<>>))
            => stdout = HelpAndHints

C8_Witness ==
    /\ op.name = "main"
    /\ Parses(op.argv)
    /\ ~op.argv.list
    /\ op.argv.framework = Some(<<>>)
    /\ stdout = HelpAndHints

\* C9: in one run of the prober no probe is retried: each command line is
\* executed at most once, and every value of the report that is a probe's
\* output is the output of the execution whose success flag decided to
\* report it.
C9_OneAuthoritativeExecution ==
    /\ \A command \in Commands : execCount[command] <= 1
    /\ \A field \in DOMAIN prov : prov[field].flag = prov[field].value

\* C10: the fuzzy lookup never shadows an exact request: get_framework_info
\* of a key returns the record stored under that key, and of a record's
\* display name that record; no key declared earlier contains, or is
\* contained in, a later key or a later record's normalized display name.
C10_ExactRequestsNotShadowed ==
    op.name = "get_framework_info"
    => \A i \in 1..Len(FRAMEWORK_INSTALL_COMMANDS) :
         LET e == FRAMEWORK_INSTALL_COMMANDS[i] IN
         /\ op.framework_name \in {e.key, e.value.name} => ret = Some(e.value)
         /\ \A j \in 1..(i - 1) :
              LET earlier == FRAMEWORK_INSTALL_COMMANDS[j].key IN
              \A later \in {e.key, Normalized(e.value.name)} :
                  ~Contains(earlier, later) /\ ~Contains(later, earlier)

C10_Witness ==
    /\ op.name = "get_framework_info"
    /\ op.framework_name = STR_Vue_js
    /\ ret = Some(Record_vue)

====
